---- MODULE Spec2Model ----
(***************************************************************************)
(* A model of script.js, the to-do list widget: the list lives in the DOM  *)
(* of listContainer, and localStorage["data"] holds listContainer's       *)
(* innerHTML.  Strings are sequences of symbols: a symbol is one text      *)
(* character or one tag as the HTML tokenizer delivers it.  The innerHTML  *)
(* setter is modelled by the HTML tree builder ("in body" insertion mode,  *)
(* fragment case) restricted to li and span elements, the innerHTML getter *)
(* by the HTML fragment serializer.                                        *)
(***************************************************************************)
EXTENDS Naturals, Sequences, FiniteSets

\* ------------------------------------------------------------- bounds
\* addItem is tried while listContainer holds fewer elements than this
MaxElements == 4
\* the most by which the setItem calls and the mutations are counted apart
MaxApart == 2

\* ------------------------------------------------------------- symbols
NoClass == "#absent"
Times == "×"
TextChars == {"a", " "}
AllChars == TextChars \cup {Times}
Tags == {"li", "span"}
Classes == {NoClass, "", "checked", "close"}

StartSym(tag, cls) ==
  CASE tag = "li" /\ cls = NoClass -> "<li>"
    [] tag = "li" /\ cls = "" -> "<li class=\"\">"
    [] tag = "li" /\ cls = "checked" -> "<li class=\"checked\">"
    [] tag = "li" /\ cls = "close" -> "<li class=\"close\">"
    [] tag = "span" /\ cls = NoClass -> "<span>"
    [] tag = "span" /\ cls = "" -> "<span class=\"\">"
    [] tag = "span" /\ cls = "checked" -> "<span class=\"checked\">"
    [] tag = "span" /\ cls = "close" -> "<span class=\"close\">"

EndSym(tag) == IF tag = "li" THEN "</li>" ELSE "</span>"

IsChar(sym) == sym \in AllChars
IsEnd(sym) == \E t \in Tags : EndSym(t) = sym
IsStart(sym) == \E t \in Tags, c \in Classes : StartSym(t, c) = sym
StartOf(sym) == CHOOSE tc \in Tags \X Classes : StartSym(tc[1], tc[2]) = sym
EndOf(sym) == CHOOSE t \in Tags : EndSym(t) = sym

\* ------------------------------------------------------------- DOM nodes
TextNode(chars) == [tag |-> "#text", cls |-> NoClass, kids |-> <<>>, data |-> chars]
Element(tag, cls, kids) == [tag |-> tag, cls |-> cls, kids |-> kids, data |-> <<>>]
IsElement(n) == n.tag # "#text"

\* the HTML fragment serializer: what the innerHTML getter returns
RECURSIVE Serialize(_)
Serialize(nodes) ==
  IF nodes = <<>> THEN <<>>
  ELSE LET n == Head(nodes)
           s == IF IsElement(n)
                THEN <<StartSym(n.tag, n.cls)>> \o Serialize(n.kids) \o <<EndSym(n.tag)>>
                ELSE n.data
       IN s \o Serialize(Tail(nodes))

\* ------------------------------------------------------------- tree builder
\* the stack of open elements; the bottom frame is the fragment's root
RootFrame == Element("#root", NoClass, <<>>)
Special(tag) == tag \in {"li", "#root"}

AppendChild(frame, node) == [frame EXCEPT !.kids = Append(@, node)]

\* a character token: appended to the last Text node or to a new one
InsertChar(frame, c) ==
  LET k == frame.kids
      n == Len(k)
  IN IF n > 0 /\ k[n].tag = "#text"
     THEN [frame EXCEPT !.kids[n].data = Append(@, c)]
     ELSE AppendChild(frame, TextNode(<<c>>))

\* pop the current node into its parent
PopOne(stack) ==
  LET n == Len(stack)
  IN SubSeq(stack, 1, n - 2) \o <<AppendChild(stack[n - 1], stack[n])>>

RECURSIVE PopUntil(_, _)
PopUntil(stack, tag) ==
  IF stack[Len(stack)].tag = tag THEN PopOne(stack) ELSE PopUntil(PopOne(stack), tag)

RECURSIVE PopAll(_)
PopAll(stack) == IF Len(stack) = 1 THEN stack ELSE PopAll(PopOne(stack))

\* "li" start tag: walk down from the current node; an open li is closed,
\* a special element stops the walk
RECURSIVE HasOpenLiBelowSpecial(_, _)
HasOpenLiBelowSpecial(stack, i) ==
  IF stack[i].tag = "li" THEN TRUE
  ELSE IF Special(stack[i].tag) THEN FALSE
  ELSE HasOpenLiBelowSpecial(stack, i - 1)

\* "has an li element in list item scope": no scope marker but the root here
LiInScope(stack) == \E i \in 1..Len(stack) : stack[i].tag = "li"

\* any other end tag: the first node from the top that matches is closed,
\* a special element on the way makes the token ignored
RECURSIVE OtherEndTag(_, _, _)
OtherEndTag(stack, i, tag) ==
  IF stack[i].tag = tag THEN PopUntil(stack, tag)
  ELSE IF Special(stack[i].tag) THEN stack
  ELSE OtherEndTag(stack, i - 1, tag)

StartTag(stack, tag, cls) ==
  LET closed == IF tag = "li" /\ HasOpenLiBelowSpecial(stack, Len(stack))
                THEN PopUntil(stack, "li")
                ELSE stack
  IN Append(closed, Element(tag, cls, <<>>))

EndTag(stack, tag) ==
  IF tag = "li"
  THEN IF LiInScope(stack) THEN PopUntil(stack, "li") ELSE stack
  ELSE OtherEndTag(stack, Len(stack), tag)

Token(stack, sym) ==
  IF IsChar(sym)
  THEN [stack EXCEPT ![Len(stack)] = InsertChar(@, sym)]
  ELSE IF IsStart(sym)
  THEN StartTag(stack, StartOf(sym)[1], StartOf(sym)[2])
  ELSE EndTag(stack, EndOf(sym))

RECURSIVE Build(_, _)
Build(stack, syms) ==
  IF syms = <<>> THEN PopAll(stack)[1].kids
  ELSE Build(Token(stack, Head(syms)), Tail(syms))

\* the innerHTML setter: the children the markup parses to
Parse(syms) == Build(<<RootFrame>>, syms)

\* ------------------------------------------------------------- paths
\* a click target: the path of child indices from listContainer to an
\* element; the empty path is listContainer itself
RECURSIVE ElementPaths(_)
ElementPaths(nodes) ==
  UNION { IF IsElement(nodes[i])
          THEN {<<i>>} \cup { <<i>> \o p : p \in ElementPaths(nodes[i].kids) }
          ELSE {}
        : i \in 1..Len(nodes) }

\* the elements below listContainer
ElementCount(nodes) == Cardinality(ElementPaths(nodes))

Targets(nodes) == {<<>>} \cup ElementPaths(nodes)

RECURSIVE NodeAt(_, _)
NodeAt(nodes, path) ==
  IF Len(path) = 1 THEN nodes[path[1]]
  ELSE NodeAt(nodes[path[1]].kids, Tail(path))

\* e.target.tagName; listContainer's own tag is never LI or SPAN
TagAt(nodes, path) == IF path = <<>> THEN "#container" ELSE NodeAt(nodes, path).tag

Front(path) == SubSeq(path, 1, Len(path) - 1)
RemoveIndex(nodes, i) == SubSeq(nodes, 1, i - 1) \o SubSeq(nodes, i + 1, Len(nodes))

\* a removal that looks the child up by its content
FirstSameKids(nodes, i) == CHOOSE j \in 1..i : nodes[j].kids = nodes[i].kids /\ \A k \in 1..(j - 1) : nodes[k].kids # nodes[i].kids
RECURSIVE RemoveAtByText(_, _)
RemoveAtByText(nodes, path) ==
  IF Len(path) = 1 THEN RemoveIndex(nodes, FirstSameKids(nodes, path[1]))
  ELSE [nodes EXCEPT ![path[1]].kids = RemoveAtByText(@, Tail(path))]

\* Node.remove() of the node at path
RECURSIVE RemoveAt(_, _)
RemoveAt(nodes, path) ==
  IF Len(path) = 1 THEN RemoveIndex(nodes, path[1])
  ELSE [nodes EXCEPT ![path[1]].kids = RemoveAt(@, Tail(path))]

\* classList.add in place of classList.toggle
ToggleClassAdd(cls) == "checked"

\* classList.toggle("checked"): the token is added, or removed leaving the
\* class attribute in place with an empty value
ToggleClass(cls) == IF cls = "checked" THEN "" ELSE "checked"

\* a toggle of every li beside the target
RECURSIVE ToggleAtAll(_, _)
ToggleAtAll(nodes, path) ==
  IF Len(path) = 1
  THEN [i \in 1..Len(nodes) |->
          IF nodes[i].tag = "li" THEN [nodes[i] EXCEPT !.cls = ToggleClass(@)] ELSE nodes[i]]
  ELSE [nodes EXCEPT ![path[1]].kids = ToggleAtAll(@, Tail(path))]

RECURSIVE ToggleAt(_, _)
ToggleAt(nodes, path) ==
  IF Len(path) = 1 THEN [nodes EXCEPT ![path[1]].cls = ToggleClass(@)]
  ELSE [nodes EXCEPT ![path[1]].kids = ToggleAt(@, Tail(path))]

\* ------------------------------------------------------------- the list
IsClose(n) == n.tag = "span" /\ n.cls = "close"
IsItem(n) == n.tag = "li"
NotClose(n) == ~IsClose(n)
\* the items of the list: the li children of listContainer, in order
Items(nodes) == SelectSeq(nodes, IsItem)
\* an item's text: its markup without the delete affordance
ItemText(li) == Serialize(SelectSeq(li.kids, NotClose))
Checked(li) == li.cls = "checked"
ItemView(li) == [text |-> ItemText(li), checked |-> Checked(li)]
ListView(nodes) == [i \in 1..Len(Items(nodes)) |-> ItemView(Items(nodes)[i])]

\* ------------------------------------------------------------- strings
IsSpace(c) == c = " "
RECURSIVE TrimStart(_)
TrimStart(s) == IF s # <<>> /\ IsSpace(Head(s)) THEN TrimStart(Tail(s)) ELSE s
RECURSIVE TrimEnd(_)
TrimEnd(s) == IF s # <<>> /\ IsSpace(s[Len(s)]) THEN TrimEnd(Front(s)) ELSE s
\* a comparison of the untrimmed value
TrimNone(s) == s
\* String.prototype.trim
Trim(s) == TrimEnd(TrimStart(s))

\* ------------------------------------------------------------- inputs
\* what the user types: nothing, blanks, plain text, and markup (an item
\* inside the item, a span inside the item)
Inputs ==
  { <<>>, <<" ">>, <<"a">>, <<"<li>", "a">>, <<"<span>", "a">> }
\* markup whose inner item is closed before the text ends
DeepInputs ==
  { <<>>, <<"<span>", "a", "<li>", "<span>", "a", "</li>", "a">> }

\* ------------------------------------------------------------- state
VARIABLES
  input,      \* input.value
  container,  \* the children of listContainer
  attached,   \* listContainer is in the document
  storage,    \* localStorage["data"]
  mutated,    \* an add, toggle or delete has run since the page was loaded
  last,       \* the kind of the last event
  dbl,        \* the toggles of one element that ended the run of events, up
              \* to 2: how many, of which element, and the children of
              \* listContainer before them
  count       \* the setItem calls and the mutations (add, toggle, delete
              \* branches run) so far, less those counted on both sides

vars == <<input, container, attached, storage, mutated, last, dbl, count>>

NoData == [present |-> FALSE, value |-> <<>>]
Stored(v) == [present |-> TRUE, value |-> v]
\* the truthiness test of "if (savedData)": neither null nor ""
Truthy(saved) == saved.present /\ saved.value # <<>>

Min(a, b) == IF a < b THEN a ELSE b
\* w more setItem calls and m more mutations
Tally(c, w, m) ==
  LET ws == c.writes + w
      ms == c.muts + m
      both == Min(ws, ms)
  IN [writes |-> Min(ws - both, MaxApart), muts |-> Min(ms - both, MaxApart)]

NoDbl == [n |-> 0, path |-> <<>>, base |-> <<>>]

\* localStorage.setItem("data", listContainer.innerHTML)
saveData(nodes) == Stored(Serialize(nodes))

\* the span created by addItem: innerHTML "×", className "close"
CloseSpan == Element("span", "close", <<TextNode(<<Times>>)>>)
\* the li created by addItem
NewItem(value) == Element("li", NoClass, Append(Parse(value), CloseSpan))

\* a showList that fills an empty page with a sample item
showListSample(saved, fresh) ==
  IF Truthy(saved) THEN Parse(saved.value) ELSE <<NewItem(<<"a">>)>>
\* showList on the children the page starts with
showList(saved, fresh) == IF Truthy(saved) THEN Parse(saved.value) ELSE fresh
\* listContainer as the page delivers it
FreshContainer == <<>>

Init ==
  /\ input = <<>>
  /\ container = showList(NoData, FreshContainer)
  /\ attached = TRUE
  /\ storage = NoData
  /\ mutated = FALSE
  /\ last = "init"
  /\ dbl = NoDbl
  /\ count = [writes |-> 0, muts |-> 0]

\* the user edits the input field
Type(s) ==
  /\ s # input
  /\ input' = s
  /\ last' = "typed"
  /\ dbl' = NoDbl
  /\ UNCHANGED <<container, attached, storage, mutated, count>>

\* addItem, reached from the keypress handler on Enter: the blank branch
AddBlank ==
  /\ Trim(input) = <<>>
  /\ last' = "alert"
  /\ dbl' = NoDbl
  /\ UNCHANGED <<input, container, attached, storage, mutated, count>>

\* an addItem that puts the new item first
AddItemFirst ==
  /\ Trim(input) # <<>>
  /\ ElementCount(container) < MaxElements
  /\ container' = <<NewItem(input)>> \o container
  /\ input' = <<>>
  /\ storage' = saveData(container')
  /\ count' = Tally(count, 1, 1)
  /\ mutated' = TRUE
  /\ last' = "added"
  /\ dbl' = NoDbl
  /\ UNCHANGED attached

\* an addItem that leaves the input field as typed
AddItemKeepInput ==
  /\ Trim(input) # <<>>
  /\ ElementCount(container) < MaxElements
  /\ container' = Append(container, NewItem(input))
  /\ storage' = saveData(container')
  /\ count' = Tally(count, 1, 1)
  /\ mutated' = TRUE
  /\ last' = "added"
  /\ dbl' = NoDbl
  /\ UNCHANGED <<input, attached>>

\* addItem: the item is appended, the input cleared, the list saved
AddItem ==
  /\ Trim(input) # <<>>
  /\ ElementCount(container) < MaxElements
  /\ container' = Append(container, NewItem(input))
  /\ input' = <<>>
  /\ storage' = saveData(container')
  /\ count' = Tally(count, 1, 1)
  /\ mutated' = TRUE
  /\ last' = "added"
  /\ dbl' = NoDbl
  /\ UNCHANGED attached

\* a toggle that forgets saveData
ClickLiNoSave(path) ==
  /\ attached
  /\ path \in Targets(container)
  /\ TagAt(container, path) = "li"
  /\ container' = ToggleAt(container, path)
  /\ mutated' = TRUE
  /\ last' = "toggled"
  /\ dbl' = IF dbl.n = 1 /\ dbl.path = path
            THEN [dbl EXCEPT !.n = 2]
            ELSE [n |-> 1, path |-> path, base |-> container]
  /\ count' = Tally(count, 0, 1)
  /\ UNCHANGED <<input, attached, storage>>

\* the click handler, target an LI: the class is toggled and the list saved
ClickLi(path) ==
  /\ attached
  /\ path \in Targets(container)
  /\ TagAt(container, path) = "li"
  /\ container' = ToggleAt(container, path)
  /\ storage' = saveData(container')
  /\ count' = Tally(count, 1, 1)
  /\ mutated' = TRUE
  /\ last' = "toggled"
  /\ dbl' = IF dbl.n = 1 /\ dbl.path = path
            THEN [dbl EXCEPT !.n = 2]
            ELSE [n |-> 1, path |-> path, base |-> container]
  /\ UNCHANGED <<input, attached>>

\* a delete whose save is left to a later, batched write
ClickSpanBatched(path) ==
  /\ attached
  /\ path \in Targets(container)
  /\ TagAt(container, path) = "span"
  /\ IF Len(path) = 1
     THEN attached' = FALSE /\ container' = container
     ELSE attached' = attached /\ container' = RemoveAt(container, Front(path))
  /\ count' = Tally(count, 0, 1)
  /\ mutated' = TRUE
  /\ last' = "removed"
  /\ dbl' = NoDbl
  /\ UNCHANGED <<input, storage>>

\* the click handler, target a SPAN: its parent element is removed and the
\* list saved; the parent of a span child of listContainer is listContainer
ClickSpan(path) ==
  /\ attached
  /\ path \in Targets(container)
  /\ TagAt(container, path) = "span"
  /\ IF Len(path) = 1
     THEN attached' = FALSE /\ container' = container
     ELSE attached' = attached /\ container' = RemoveAt(container, Front(path))
  /\ storage' = saveData(container')
  /\ count' = Tally(count, 1, 1)
  /\ mutated' = TRUE
  /\ last' = "removed"
  /\ dbl' = NoDbl
  /\ UNCHANGED input

\* the click handler, any other target: here listContainer itself
ClickOther(path) ==
  /\ attached
  /\ path \in Targets(container)
  /\ TagAt(container, path) \notin {"li", "span"}
  /\ last' = "ignored"
  /\ dbl' = NoDbl
  /\ UNCHANGED <<input, container, attached, storage, mutated, count>>

\* a load whose showList ends with saveData
ReloadSaving ==
  /\ input' = <<>>
  /\ container' = showList(storage, FreshContainer)
  /\ attached' = TRUE
  /\ mutated' = FALSE
  /\ last' = "loaded"
  /\ dbl' = NoDbl
  /\ storage' = saveData(container')
  /\ count' = Tally(count, 1, 0)

\* the page is loaded again: a new document, and the script runs showList
Reload ==
  /\ input' = <<>>
  /\ container' = showList(storage, FreshContainer)
  /\ attached' = TRUE
  /\ mutated' = FALSE
  /\ last' = "loaded"
  /\ dbl' = NoDbl
  /\ UNCHANGED <<storage, count>>

Next ==
  \/ \E s \in Inputs : Type(s)
  \/ AddBlank
  \/ AddItem
  \/ \E p \in Targets(container) : ClickLi(p)
  \/ \E p \in Targets(container) : ClickSpan(p)
  \/ \E p \in Targets(container) : ClickOther(p)
  \/ Reload

Spec == Init /\ [][Next]_vars

\* the same program, the user typing the deep markup
NextDeep ==
  \/ \E s \in DeepInputs : Type(s)
  \/ AddBlank
  \/ AddItem
  \/ \E p \in Targets(container) : ClickLi(p)
  \/ \E p \in Targets(container) : ClickSpan(p)
  \/ \E p \in Targets(container) : ClickOther(p)
  \/ Reload

SpecDeep == Init /\ [][NextDeep]_vars

\* ------------------------------------------------------------- claims
\* text that is empty or holds blanks only
IsBlank(s) == \A i \in 1..Len(s) : s[i] = " "
\* the step runs addItem
Enter == last' \in {"added", "alert"}
\* the step runs the click handler on the target at path
Click(p) == ClickLi(p) \/ ClickSpan(p) \/ ClickOther(p)
\* the target is a span that addItem created
IsCloseAt(nodes, p) == p # <<>> /\ IsClose(NodeAt(nodes, p))
\* the target is the delete affordance of an item of the list
IsAffordanceAt(nodes, p) ==
  Len(p) = 2 /\ IsItem(nodes[p[1]]) /\ IsClose(NodeAt(nodes, p))
\* the index among the items of the child at index i
ItemIndex(nodes, i) == Len(Items(SubSeq(nodes, 1, i)))
LastItem(nodes) == Items(nodes)[Len(Items(nodes))]
NoText(s) == \A i \in 1..Len(s) : s[i] \notin TextChars

\* C1: once an add, a toggle or a delete has run, the value stored under
\* the key is the serialization of the current list: the save is part of
\* the step that mutates
C1_SnapshotCurrent ==
  mutated => storage.present /\ storage.value = Serialize(container)

C1_Witness ==
  /\ mutated /\ last = "toggled"
  /\ Len(Items(container)) = 2
  /\ Checked(Items(container)[1]) /\ ~Checked(Items(container)[2])
  /\ storage.value = Serialize(container)

\* C2: a reload reproduces the ordered sequence of (text, checked) pairs the
\* list held before it
C2_RoundTrip ==
  [][last' = "loaded" => ListView(container') = ListView(container)]_vars

\* C3: an add with text that is not blank lengthens the list by exactly
\* one, the new item is last and unchecked, and what was there before keeps
\* its place, text and flag
C3_AddAppends ==
  [][(Enter /\ ~IsBlank(input)) =>
       /\ last' = "added"
       /\ Len(Items(container')) = Len(Items(container)) + 1
       /\ LastItem(container') = container'[Len(container')]
       /\ ~Checked(LastItem(container'))
       /\ SubSeq(container', 1, Len(container)) = container
       /\ SubSeq(Items(container'), 1, Len(Items(container))) = Items(container)]_vars

C3_Witness ==
  /\ last = "added"
  /\ Len(Items(container)) = 2
  /\ Checked(Items(container)[1])
  /\ ~Checked(Items(container)[2])

\* C4: an add with blank text raises the notice and changes nothing else:
\* not the list, not the stored value, not the input field
C4_BlankRejected ==
  [][(Enter /\ IsBlank(input)) =>
       /\ last' = "alert"
       /\ container' = container
       /\ storage' = storage
       /\ input' = input
       /\ attached' = attached]_vars

C4_Witness ==
  /\ last = "alert"
  /\ input = <<" ">>
  /\ Len(Items(container)) = 1
  /\ storage.present

\* C5 as stated: two toggles in a row of one item leave the list and the
\* stored snapshot equal to the list before them and a save of it
C5_DoubleToggleSameSnapshot ==
  (dbl.n = 2 /\ Len(dbl.path) = 1) =>
    /\ container = dbl.base
    /\ storage = Stored(Serialize(dbl.base))

\* C5 as amended: two toggles in a row of one item restore its checked
\* flag and every item's text and flag; the snapshot is the serialization
\* of the list, which is the list before them but for an empty class
\* attribute on the item if it had none
C5_DoubleToggle ==
  (dbl.n = 2 /\ Len(dbl.path) = 1) =>
    /\ ListView(container) = ListView(dbl.base)
    /\ Checked(container[dbl.path[1]]) = Checked(dbl.base[dbl.path[1]])
    /\ container = [dbl.base EXCEPT ![dbl.path[1]].cls = IF @ = NoClass THEN "" ELSE @]
    /\ storage = Stored(Serialize(container))

C5_Witness ==
  /\ dbl.n = 2 /\ Len(dbl.path) = 1
  /\ Len(Items(container)) = 2
  /\ dbl.base[dbl.path[1]].cls = NoClass
  /\ container[dbl.path[1]].cls = ""

\* C6: a click on the delete affordance of an item removes that item and
\* no other: the rest keep their text, flag and order
C6_DeleteRemovesOwner ==
  [][\A p \in Targets(container) :
       (ClickSpan(p) /\ IsAffordanceAt(container, p)) =>
         /\ container' = RemoveIndex(container, p[1])
         /\ Items(container') = RemoveIndex(Items(container), ItemIndex(container, p[1]))
         /\ Len(Items(container')) = Len(Items(container)) - 1]_vars

C6_Witness ==
  /\ last = "removed"
  /\ attached
  /\ Len(Items(container)) = 1
  /\ Checked(Items(container)[1])
  /\ \E k \in 1..Len(Items(container)[1].kids) : IsClose(Items(container)[1].kids[k])

\* C7: after showList has run with nothing stored under the key, the list
\* is empty
C7_EmptyWithoutSnapshot ==
  (last \in {"init", "loaded"} /\ ~storage.present) => Items(container) = <<>>

C7_Witness ==
  last = "loaded" /\ ~storage.present /\ Items(container) = <<>>

\* C8: when a delete leaves no item, the stored snapshot holds none of the
\* deleted items' text and a reload gives an empty list
C8_DeletedGone ==
  (last = "removed" /\ Items(container) = <<>>) =>
    /\ NoText(storage.value)
    /\ Items(showList(storage, FreshContainer)) = <<>>

\* C9: a click whose target is neither an item (no li element at all) nor
\* a delete affordance (no span that addItem created) changes neither the
\* list nor the stored snapshot
C9_OtherClicksIgnored ==
  [][\A p \in Targets(container) :
       (Click(p) /\ TagAt(container, p) # "li" /\ ~IsCloseAt(container, p)) =>
         /\ container' = container
         /\ storage' = storage
         /\ attached' = attached]_vars

\* C10: every item of the list has text that is not blank
C10_TextNotBlank ==
  \A i \in 1..Len(Items(container)) : ~IsBlank(ItemText(Items(container)[i]))

\* C11: the setItem calls are as many as the add, toggle and delete
\* branches run: each of them writes exactly once, none is batched
C11_WritesEqualMutations ==
  count = [writes |-> 0, muts |-> 0]

C11_Witness ==
  /\ count = [writes |-> 0, muts |-> 0]
  /\ last = "removed"
  /\ attached
  /\ Len(Items(container)) = 1
  /\ Checked(Items(container)[1])
  /\ storage = Stored(Serialize(container))

\* C12: a successful add clears the input field, so an Enter right after
\* it, with nothing typed in between, raises the notice and adds no item
C12_EnterAfterAddRejected ==
  [][/\ (last' = "added" => input' = <<>>)
     /\ ((last = "added" /\ Enter) =>
           /\ last' = "alert"
           /\ container' = container
           /\ storage' = storage)]_vars

C12_Witness ==
  /\ last = "alert"
  /\ input = <<>>
  /\ mutated
  /\ Len(Items(container)) = 1
  /\ storage = Stored(Serialize(container))

\* C13: a toggle click on an item flips that item's checked flag and
\* changes nothing else: not the length or order of the list, not any
\* item's text, not another item's flag, not the input field
C13_ToggleFrame ==
  [][\A p \in Targets(container) :
       (ClickLi(p) /\ Len(p) = 1) =>
         /\ Len(container') = Len(container)
         /\ \A i \in 1..Len(container) : i # p[1] => container'[i] = container[i]
         /\ container'[p[1]].tag = container[p[1]].tag
         /\ container'[p[1]].kids = container[p[1]].kids
         /\ Checked(container'[p[1]]) = ~Checked(container[p[1]])
         /\ Len(Items(container')) = Len(Items(container))
         /\ \A i \in 1..Len(Items(container)) :
              ItemText(Items(container')[i]) = ItemText(Items(container)[i])
         /\ input' = input
         /\ attached' = attached]_vars

C13_Witness ==
  /\ last = "toggled"
  /\ dbl.n = 1 /\ Len(dbl.path) = 1
  /\ Len(Items(container)) = 2
  /\ input = <<"a">>
  /\ ~Checked(container[dbl.path[1]])
  /\ Checked(dbl.base[dbl.path[1]])
  /\ \E i \in 1..Len(container) : i # dbl.path[1] /\ Checked(container[i])

\* C14: showList never writes to storage, and a reload with no mutation
\* since the last load leaves the stored value as it was and gives the
\* same list again
C14_ReloadIdempotent ==
  [][last' = "loaded" =>
       /\ storage' = storage
       /\ count' = count
       /\ (~mutated => container' = container /\ ListView(container') = ListView(container))]_vars

C14_Witness ==
  /\ last = "loaded"
  /\ ~mutated
  /\ storage.present
  /\ Len(Items(container)) = 2
  /\ Checked(Items(container)[1]) /\ ~Checked(Items(container)[2])
  /\ container = Parse(storage.value)
====
